---- MODULE Spec2Model ----
(***************************************************************************)
(* Model of the lead-generation endpoint of src/main.py:                   *)
(*   generate_leads = convert_query_to_google_query -> fetch_leads ->      *)
(*   store_leads -> response.                                              *)
(* FastAPI runs a plain "def" endpoint on a worker thread per request, so  *)
(* several requests run interleaved against one shared "leads" table.      *)
(***************************************************************************)
EXTENDS Integers, Sequences, FiniteSets, TLC

\* ------------------------------------------------------------------ bounds
\* Number of requests in flight in the interleaved specification.
NReq == 2
\* Longest organicResults list enumerated in the fetcher specification.
MaxItems == 2

Reqs == 1..NReq

\* ------------------------------------------------------- JSON / Python values
\* A decoded JSON value is a record [t, v]: t is the Python type after
\* response.json(), v its content.  A str is a sequence of text pieces,
\* a list a sequence of values, a dict a function from keys to values.
Null == [t |-> "null", v |-> 0]
Num(n) == [t |-> "num", v |-> n]
Str(s) == [t |-> "str", v |-> s]
Arr(s) == [t |-> "list", v |-> s]
Obj(f) == [t |-> "dict", v |-> f]

EmptyDict == Obj([k \in {} |-> Null])
Dict1(k, x) == Obj([j \in {k} |-> x])

IsDict(x) == x.t = "dict"

\* bool(x): None, 0, "", [] and {} are falsy.
Truthy(x) ==
    CASE x.t = "null" -> FALSE
      [] x.t = "num" -> x.v # 0
      [] x.t = "str" -> x.v # <<>>
      [] x.t = "list" -> x.v # <<>>
      [] x.t = "dict" -> DOMAIN x.v # {}

\* Variant of Get: d.get(k) without the default, None for a missing key.
Get_NoDefault(d, k, default) == IF k \in DOMAIN d.v THEN d.v[k] ELSE Null

\* d.get(k, default) on a dict.
Get(d, k, default) == IF k \in DOMAIN d.v THEN d.v[k] ELSE default

\* s occurs in t as a contiguous run of pieces (Python: s in t, both str).
IsSubstring(s, t) ==
    \E i \in 0..(Len(t) - Len(s)) :
        \A j \in 1..Len(s) : t[i + j] = s[j]

\* The LinkedIn profile path segment the fetcher looks for.
Needle == <<"linkedin.com", "/in">>

\* Whether  "linkedin.com/in" in link  raises TypeError (link is no container).
InRaises(link) == link.t \in {"null", "num"}

\* Variant of NeedleIn: the filter looks for the domain alone.
NeedleIn_DomainOnly(link) == link.t = "str" /\ IsSubstring(<<"linkedin.com">>, link.v)

\* "linkedin.com/in" in link, for a link on which the test does not raise.
NeedleIn(link) ==
    CASE link.t = "str" -> IsSubstring(Needle, link.v)
      [] link.t = "list" -> \E i \in 1..Len(link.v) : link.v[i] = Str(Needle)
      [] link.t = "dict" -> FALSE
      [] OTHER -> FALSE

\* Whether  for item in x  raises TypeError (x is not iterable).
IterRaises(x) == x.t \in {"null", "num"}

\* The sequence  for item in x  walks through: the elements of a list, the
\* characters of a str, the keys of a dict (keys are str; the model's dicts
\* that reach here hold at most one key).
IterItems(x) ==
    CASE x.t = "list" -> x.v
      [] x.t = "str" -> [i \in 1..Len(x.v) |-> Str(<<x.v[i]>>)]
      [] x.t = "dict" -> IF DOMAIN x.v = {} THEN <<>>
                         ELSE <<Str(<<CHOOSE k \in DOMAIN x.v : TRUE>>)>>
      [] OTHER -> <<>>

\* Whether results[0] raises: KeyError on a dict (JSON keys are strings),
\* TypeError on a number; the caller has already excluded falsy values.
IndexRaises(x) == x.t \in {"dict", "num", "null"}

\* results[0] on a non-empty list or str.
First(x) == IF x.t = "str" THEN Str(<<x.v[1]>>) ELSE x.v[1]

\* ------------------------------------------------------------ fetch_leads
\* Outcome of a call: a returned value or a raised HTTPException / error.
Return(x) == [kind |-> "return", val |-> x, detail |-> ""]
Raise(d) == [kind |-> "raise", val |-> <<>>, detail |-> d]

\* A response body that is not JSON at all: response.json() raises on it.
NotJson == [t |-> "notjson", v |-> 0]

\* The lead dict appended for one kept organic result (main.py 136-145).
MakeLead(item, personal_info, link) ==
    Obj([k \in {"name", "title", "email", "organization", "location", "linkedin_url"} |->
          CASE k = "name" -> Get(item, "title", Null)
            [] k = "title" -> Get(personal_info, "jobTitle", Null)
            [] k = "email" -> Null
            [] k = "organization" -> Dict1("name", Get(personal_info, "companyName", Null))
            [] k = "location" -> Get(personal_info, "location", Null)
            [] k = "linkedin_url" -> link])

\* The for loop of fetch_leads over the organic results still to visit,
\* with the leads collected so far; any exception leaves the loop at once.
RECURSIVE LeadLoop(_, _)
LeadLoop(items, leads) ==
    IF items = <<>> THEN Return(leads)
    ELSE LET item == Head(items) IN
         IF ~IsDict(item) THEN Raise("AttributeError")
         ELSE LET link == Get(item, "url", Str(<<>>)) IN
              IF InRaises(link) THEN Raise("TypeError")
              ELSE IF NeedleIn(link)
                   THEN LET personal_info == Get(item, "personalInfo", EmptyDict) IN
                        IF ~IsDict(personal_info) THEN Raise("AttributeError")
                        ELSE LeadLoop(Tail(items),
                                      Append(leads, MakeLead(item, personal_info, link)))
                   ELSE LeadLoop(Tail(items), leads)

\* Variant of StatusFailed: only 4xx and 5xx count as failures.
StatusFailed_ErrorsOnly(status) == status >= 400

\* The status test of fetch_leads (main.py 118).
StatusFailed(status) == status # 200 /\ status # 201

\* The statements of the try block of fetch_leads after requests.post
\* returned a response with this status code and body (main.py 116-147).
FetchBody(status, body) ==
    IF StatusFailed(status) THEN Raise("Apify API failed")
    ELSE IF body = NotJson THEN Raise("JSONDecodeError")
    ELSE IF ~Truthy(body) THEN Return(<<>>)
    ELSE IF IndexRaises(body) THEN Raise("KeyError")
    ELSE LET rs == First(body) IN
         IF ~IsDict(rs) THEN Raise("AttributeError")
         ELSE LET organic_results == Get(rs, "organicResults", Arr(<<>>)) IN
              IF IterRaises(organic_results) THEN Raise("TypeError")
              ELSE LeadLoop(IterItems(organic_results), <<>>)

\* except Exception: every exception of the try block, the HTTPException of
\* the status check included, is replaced by one HTTPException (149-151).
ExceptApify(outcome) ==
    IF outcome.kind = "raise" THEN Raise("Apify request failed") ELSE outcome

\* fetch_leads on a response of the scraping service.
fetch_leads(status, body) == ExceptApify(FetchBody(status, body))

\* ------------------------------------------- convert_query_to_google_query
IsSpace(c) == c \in {" ", "\n"}

\* str.strip(): drop leading and trailing whitespace pieces.
RECURSIVE LStrip(_)
LStrip(s) == IF s # <<>> /\ IsSpace(Head(s)) THEN LStrip(Tail(s)) ELSE s
RECURSIVE RStrip(_)
RStrip(s) == IF s # <<>> /\ IsSpace(s[Len(s)]) THEN RStrip(SubSeq(s, 1, Len(s) - 1)) ELSE s
Strip(s) == RStrip(LStrip(s))

\* The translator on the reply of the text-generation model: text is the
\* reply's text, NoText a reply without text (response.text is None) or a
\* failed call; both end in HTTPException("Gemini failed") (main.py 87-100).
NoText == <<"<none>">>
convert_query_to_google_query(text) ==
    IF text = NoText THEN Raise("Gemini failed") ELSE Return(Strip(text))

\* ------------------------------------------------------------ store_leads
\* The Lead row built for one lead dict (main.py 161-167).
NewLead(lead) ==
    [name |-> Get(lead, "name", Null),
     email |-> Get(lead, "email", Null),
     title |-> Get(lead, "title", Null),
     company |-> Get(Get(lead, "organization", EmptyDict), "name", Null),
     location |-> Get(Get(lead, "organization", EmptyDict), "location", Null)]

\* The rows the for loop of store_leads adds to the session, in order.
PendingRows(leads) == [i \in 1..Len(leads) |-> NewLead(leads[i])]


\* ------------------------------------------------------------------ inputs
\* A key left out of a dict under construction.
Absent == [t |-> "absent", v |-> 0]
\* The dict holding the keys of f whose value is not Absent.
MkDict(f) == Obj([k \in {j \in DOMAIN f : f[j] # Absent} |-> f[k]])

ProfileUrl == Str(<<"https://www.", "linkedin.com", "/in", "/jane">>)
CompanyUrl == Str(<<"https://www.", "linkedin.com", "/company", "/acme">>)

UrlOpts == {Absent, Null, ProfileUrl, CompanyUrl}
TitleOpts == {Absent, Str(<<"Jane Doe">>)}
PersonalInfoOpts ==
    {Absent, Null,
     MkDict([jobTitle |-> Str(<<"CEO">>), companyName |-> Absent, location |-> Absent]),
     MkDict([jobTitle |-> Absent, companyName |-> Str(<<"Acme">>), location |-> Str(<<"Mumbai">>)]),
     MkDict([jobTitle |-> Str(<<"CEO">>), companyName |-> Str(<<"Acme">>), location |-> Str(<<"Mumbai">>)])}

\* Organic result objects, and one entry that is no object at all.
ResultObjects ==
    {MkDict([url |-> u, title |-> t, personalInfo |-> p]) :
        u \in UrlOpts, t \in TitleOpts, p \in PersonalInfoOpts}
Items == ResultObjects \cup {Str(<<"x">>)}

ItemLists == UNION {[1..n -> Items] : n \in 0..MaxItems}

\* Values of the organicResults key that are no list.
OddOrganic == {Null, Num(7), Str(<<>>), Str(<<"a">>), EmptyDict, Dict1("k", Null)}

ResultSets ==
    {EmptyDict}
    \cup {Dict1("organicResults", Arr(l)) : l \in ItemLists}
    \cup {Dict1("organicResults", x) : x \in OddOrganic}

\* Bodies that are no array of result sets.
OddBodies ==
    {NotJson, Null, Num(0), Num(5), Str(<<>>), Str(<<"a", "b">>), EmptyDict,
     Dict1("error", Null), Arr(<<Null>>), Arr(<<Num(5)>>)}

AllBodies ==
    OddBodies
    \cup {Arr(<<>>)}
    \cup {Arr(<<rs>>) : rs \in ResultSets}
    \cup {Arr(<<EmptyDict, x>>) : x \in {EmptyDict, Num(5)}}

Response(st, b) == [status |-> st, body |-> b]
\* requests.post itself failing (no response at all).
ConnError == Response(0, Null)

JaneItem == MkDict([url |-> ProfileUrl, title |-> Str(<<"Jane Doe">>),
                    personalInfo |-> MkDict([jobTitle |-> Str(<<"CEO">>),
                                             companyName |-> Str(<<"Acme">>),
                                             location |-> Str(<<"Mumbai">>)])])
BobItem == MkDict([url |-> ProfileUrl, title |-> Absent,
                   personalInfo |-> MkDict([jobTitle |-> Str(<<"CEO">>),
                                            companyName |-> Absent, location |-> Absent])])
AcmeItem == MkDict([url |-> CompanyUrl, title |-> Str(<<"Jane Doe">>), personalInfo |-> Absent])
OneSet(l) == Arr(<<Dict1("organicResults", Arr(l))>>)

\* Replies of the scraping service in the interleaved specification.
SmallResponses ==
    {ConnError,
     Response(500, Dict1("error", Null)),
     Response(200, Arr(<<>>)),
     Response(201, OneSet(<<AcmeItem, JaneItem>>)),
     Response(200, OneSet(<<JaneItem, AcmeItem, BobItem>>))}

\* Replies of the scraping service in the fetcher specification.
AllResponses ==
    {ConnError}
    \cup {Response(200, b) : b \in AllBodies}
    \cup {Response(st, b) : st \in {201, 204, 404, 500},
                            b \in {Null, Arr(<<>>), Dict1("error", Null),
                                   OneSet(<<JaneItem>>)}}

\* Replies of the text-generation model.
Texts ==
    {NoText,
     <<"site:linkedin.com/in", "\"CEO\"">>,
     <<"\n", " ", "site:linkedin.com/in", " ", "\"CTO\"", " ", "\n">>}


\* ------------------------------------------------------------------- state
VARIABLES
    pc,            \* pc[r]: where request r stands in generate_leads / store_leads
    search_query,  \* search_query[r]: local of generate_leads
    payload,       \* payload[r]: the "queries" value posted to the scraping service
    apify,         \* apify[r]: the reply requests.post received
    leads,         \* leads[r]: local of generate_leads, the fetcher's return value
    session,       \* session[r]: the session db of store_leads
    pending,       \* pending[r]: rows given to db.add, not yet flushed
    tx,            \* tx[r]: rows inserted in the session's open transaction
    exc,           \* exc[r]: the exception propagating out of store_leads
    response,      \* response[r]: the HTTP response of the request
    calls,         \* calls[r][step]: how often and how each step of r ended
    committed,     \* committed[r]: the session's transaction was committed
    table          \* the rows of the leads table, in insertion order

vars == <<pc, search_query, payload, apify, leads, session, pending, tx, exc,
          response, calls, committed, table>>

NoQuery == <<"<unset>">>
NoLeads == <<Absent>>
NoReply == Response(-1, Null)
NoResponse == [code |-> 0, detail |-> "", google_query |-> NoQuery, leads_found |-> -1]

\* The response FastAPI sends for an exception leaving the endpoint: an
\* HTTPException carries its status and detail, anything else is a plain 500.
ErrorResponse(detail) ==
    [code |-> 500, detail |-> detail, google_query |-> NoQuery, leads_found |-> -1]
HttpDetails == {"Gemini failed", "Apify request failed", "Database error", "Invalid format"}
ResponseFor(e) ==
    ErrorResponse(IF e \in HttpDetails THEN e ELSE "Internal Server Error")

\* Variant of SuccessResponse: leads_found counted from the table.
SuccessResponse_CountTable(q, ls) ==
    [code |-> 200, detail |-> "", google_query |-> q, leads_found |-> Len(table)]

\* The dict generate_leads returns (main.py 197-200).
SuccessResponse(q, ls) ==
    [code |-> 200, detail |-> "", google_query |-> q, leads_found |-> Len(ls)]

Steps == {"translator", "fetcher", "store", "response"}
NoCalls == [s \in Steps |-> [n |-> 0, out |-> "none"]]
Called(r, s, o) == [calls EXCEPT ![r][s] = [n |-> @.n + 1, out |-> o]]
Ended(r, s, o) == [calls EXCEPT ![r][s].out = o]

Init ==
    /\ pc = [r \in Reqs |-> "translate"]
    /\ search_query = [r \in Reqs |-> NoQuery]
    /\ payload = [r \in Reqs |-> NoQuery]
    /\ apify = [r \in Reqs |-> NoReply]
    /\ leads = [r \in Reqs |-> NoLeads]
    /\ session = [r \in Reqs |-> "none"]
    /\ pending = [r \in Reqs |-> <<>>]
    /\ tx = [r \in Reqs |-> <<>>]
    /\ exc = [r \in Reqs |-> "none"]
    /\ response = [r \in Reqs |-> NoResponse]
    /\ calls = [r \in Reqs |-> NoCalls]
    /\ committed = [r \in Reqs |-> FALSE]
    /\ table = <<>>

\* ----------------------------------------------------------- generate_leads
\* Variant of AfterStep: the endpoint swallows the exception and goes on.
AfterStep_Swallow(outcome, next) == next

\* Where generate_leads goes after a step's outcome: an exception leaves the
\* endpoint (no except clause in generate_leads), a return moves on.
AfterStep(outcome, next) == IF outcome.kind = "raise" THEN "done" ELSE next

\* search_query = convert_query_to_google_query(data.query)      (main.py 188)
Translate(r, texts) ==
    /\ pc[r] = "translate"
    /\ \E text \in texts :
        LET out == convert_query_to_google_query(text) IN
        /\ pc' = [pc EXCEPT ![r] = AfterStep(out, "fetch")]
        /\ calls' = Called(r, "translator", out.kind)
        /\ IF out.kind = "raise"
           THEN /\ response' = [response EXCEPT ![r] = ResponseFor(out.detail)]
                /\ UNCHANGED search_query
           ELSE /\ search_query' = [search_query EXCEPT ![r] = out.val]
                /\ UNCHANGED response
    /\ UNCHANGED <<payload, apify, leads, session, pending, tx, exc, committed, table>>

\* leads = fetch_leads(search_query), and the isinstance check   (main.py 190-193)
Fetch(r, replies) ==
    /\ pc[r] = "fetch"
    /\ \E reply \in replies :
        LET out == IF reply = ConnError THEN ExceptApify(Raise("ConnectionError"))
                   ELSE fetch_leads(reply.status, reply.body) IN
        /\ payload' = [payload EXCEPT ![r] = search_query[r]]
        /\ apify' = [apify EXCEPT ![r] = reply]
        /\ pc' = [pc EXCEPT ![r] = AfterStep(out, "store")]
        /\ calls' = Called(r, "fetcher", out.kind)
        /\ IF out.kind = "raise"
           THEN /\ response' = [response EXCEPT ![r] = ResponseFor(out.detail)]
                /\ UNCHANGED leads
           ELSE /\ leads' = [leads EXCEPT ![r] = out.val]
                /\ UNCHANGED response
    /\ UNCHANGED <<search_query, session, pending, tx, exc, committed, table>>

\* ------------------------------------------------------------- store_leads
\* db = SessionLocal()                                            (main.py 157)
StoreOpen(r) ==
    /\ pc[r] = "store"
    /\ session' = [session EXCEPT ![r] = "open"]
    /\ calls' = Called(r, "store", "running")
    /\ pc' = [pc EXCEPT ![r] = IF leads[r] = <<>> THEN "commit" ELSE "add"]
    /\ UNCHANGED <<search_query, payload, apify, leads, pending, tx, exc, response,
                   committed, table>>

\* One iteration of the for loop: build the row and db.add it    (main.py 160-168)
AddLead(r) ==
    /\ pc[r] = "add"
    /\ LET i == Len(pending[r]) + 1 IN
        /\ pending' = [pending EXCEPT ![r] = Append(@, NewLead(leads[r][i]))]
        /\ pc' = [pc EXCEPT ![r] = IF i = Len(leads[r]) THEN "commit" ELSE "add"]
    /\ UNCHANGED <<search_query, payload, apify, leads, session, tx, exc, response,
                   calls, committed, table>>

\* The rows of a transaction as they land in the table, tagged with the
\* request that wrote them.
Landed(r, rows) == [i \in 1..Len(rows) |-> [req |-> r, row |-> rows[i]]]

\* Variant of FlushTable: a session in autocommit mode, where every INSERT
\* is durable as soon as it is sent.
FlushTable_Autocommit(t, r, row) == Append(t, [req |-> r, row |-> row])

\* The table after request r inserted a row inside its open transaction:
\* the row stays in the transaction, and the table is as it was.
FlushTable(t, r, row) == t

\* db.commit(), first part: the flush sends one INSERT per pending row inside
\* the session's transaction; any of them may fail, which raises into the
\* except clause.                                                 (main.py 170)
FlushInsert(r) ==
    /\ pc[r] = "commit"
    /\ Len(tx[r]) < Len(pending[r])
    /\ \E ok \in BOOLEAN :
        IF ok THEN /\ tx' = [tx EXCEPT ![r] = Append(@, pending[r][Len(@) + 1])]
                   /\ table' = FlushTable(table, r, pending[r][Len(tx[r]) + 1])
                   /\ UNCHANGED pc
              ELSE /\ pc' = [pc EXCEPT ![r] = "rollback"]
                   /\ UNCHANGED <<tx, table>>
    /\ UNCHANGED <<search_query, payload, apify, leads, session, pending, exc, response,
                   calls, committed>>

\* Variant of CommitTable: the commit rewrites the table with the rows of
\* the transaction instead of appending them.
CommitTable_Replace(t, r, rows) == Landed(r, rows)

\* The table after request r commits its transaction.
CommitTable(t, r, rows) == t \o Landed(r, rows)

\* db.commit(), second part: COMMIT of the transaction, which makes all its
\* rows durable at once or fails.  A session that flushed nothing holds no
\* connection, so its commit does no I/O and cannot fail.         (main.py 170)
CommitTx(r) ==
    /\ pc[r] = "commit"
    /\ Len(tx[r]) = Len(pending[r])
    /\ \E ok \in BOOLEAN :
        /\ (~ok => tx[r] # <<>>)
        /\ IF ok THEN /\ table' = CommitTable(table, r, tx[r])
                      /\ tx' = [tx EXCEPT ![r] = <<>>]
                      /\ committed' = [committed EXCEPT ![r] = TRUE]
                      /\ pc' = [pc EXCEPT ![r] = "close"]
                 ELSE /\ pc' = [pc EXCEPT ![r] = "rollback"]
                      /\ UNCHANGED <<tx, committed, table>>
    /\ UNCHANGED <<search_query, payload, apify, leads, session, pending, exc, response,
                   calls>>

\* The exception that leaves the except clause: the HTTPException raised
\* after a rollback that worked, or the error of a rollback that failed.
ExceptDb(rolledBack) == IF rolledBack THEN "Database error" ELSE "RollbackError"

\* except Exception: db.rollback(), then raise HTTPException     (main.py 172-175)
Rollback(r) ==
    /\ pc[r] = "rollback"
    /\ \E ok \in BOOLEAN :
        /\ tx' = [tx EXCEPT ![r] = IF ok THEN <<>> ELSE @]
        /\ exc' = [exc EXCEPT ![r] = ExceptDb(ok)]
    /\ pc' = [pc EXCEPT ![r] = "close"]
    /\ UNCHANGED <<search_query, payload, apify, leads, session, pending, response,
                   calls, committed, table>>

\* Variant of Closed: db.close() at the end of the try block instead of in
\* a finally clause, so that it is skipped when an exception propagates.
Closed_OnSuccessOnly(s, e) == IF e = "none" THEN "closed" ELSE s

\* The state of session s after the finally clause, whatever exception e
\* is propagating.
Closed(s, e) == "closed"

\* finally: db.close() releases the connection, which ends a transaction
\* still open without committing it; then store_leads returns or the
\* exception leaves generate_leads.                               (main.py 177-178)
Close(r) ==
    /\ pc[r] = "close"
    /\ session' = [session EXCEPT ![r] = Closed(@, exc[r])]
    /\ tx' = [tx EXCEPT ![r] = <<>>]
    /\ IF exc[r] = "none"
       THEN /\ pc' = [pc EXCEPT ![r] = "respond"]
            /\ calls' = Ended(r, "store", "return")
            /\ UNCHANGED response
       ELSE /\ pc' = [pc EXCEPT ![r] = "done"]
            /\ calls' = Ended(r, "store", "raise")
            /\ response' = [response EXCEPT ![r] = ResponseFor(exc[r])]
    /\ UNCHANGED <<search_query, payload, apify, leads, pending, exc, committed, table>>

\* return {"google_query": ..., "leads_found": ...}               (main.py 197-200)
Respond(r) ==
    /\ pc[r] = "respond"
    /\ response' = [response EXCEPT ![r] = SuccessResponse(search_query[r], leads[r])]
    /\ calls' = Called(r, "response", "return")
    /\ pc' = [pc EXCEPT ![r] = "done"]
    /\ UNCHANGED <<search_query, payload, apify, leads, session, pending, tx, exc,
                   committed, table>>

\* ---------------------------------------------------------- specifications
\* Requests served interleaved, on a small set of upstream replies.
Next ==
    \E r \in Reqs :
        \/ Translate(r, Texts)
        \/ Fetch(r, SmallResponses)
        \/ StoreOpen(r)
        \/ AddLead(r)
        \/ FlushInsert(r)
        \/ CommitTx(r)
        \/ Rollback(r)
        \/ Close(r)
        \/ Respond(r)

Spec == Init /\ [][Next]_vars

\* One request alone, on every enumerated reply of the scraping service.
NextOne ==
    \/ Translate(1, Texts)
    \/ Fetch(1, AllResponses)
    \/ StoreOpen(1)
    \/ AddLead(1)
    \/ FlushInsert(1)
    \/ CommitTx(1)
    \/ Rollback(1)
    \/ Close(1)
    \/ Respond(1)

SpecOne == Init /\ [][NextOne]_vars


\* ================================================================== claims
\* The rows of the table written by request r, in table order.
RECURSIVE RowsIn(_, _)
RowsIn(t, r) ==
    IF t = <<>> THEN <<>>
    ELSE IF Head(t).req = r THEN <<Head(t).row>> \o RowsIn(Tail(t), r)
         ELSE RowsIn(Tail(t), r)
RowsOf(r) == RowsIn(table, r)

Finished(r, s) == calls[r][s].out \in {"return", "raise"}
\* The rows store_leads builds from the leads request r fetched.
Rows(r) == IF leads[r] = NoLeads THEN <<>> ELSE PendingRows(leads[r])
IsPrefix(a, b) == Len(a) <= Len(b) /\ SubSeq(b, 1, Len(a)) = a

\* ---- C1 --------------------------------------------------------------
\* C1 as stated: once store_leads has returned or raised, either all K rows
\* of the call are in the table and the transaction was committed, or none
\* of them is and the failure raised is "Database error".
C1_DatabaseErrorAlways ==
    \A r \in Reqs :
        Finished(r, "store") =>
            \/ /\ calls[r]["store"].out = "return"
               /\ committed[r]
               /\ RowsOf(r) = Rows(r)
            \/ /\ calls[r]["store"].out = "raise"
               /\ ~committed[r]
               /\ RowsOf(r) = <<>>
               /\ response[r] = ErrorResponse("Database error")

\* C1 amended: store_leads is all-or-nothing.  At every moment the table
\* holds either none or all K rows of a call; once the call has returned,
\* all K rows are in the table and the transaction was committed; once it
\* has raised, none of them is, nothing was committed, and the failure is
\* "Database error" when the rollback worked and the rollback's own error
\* (a plain server error for the caller) when the rollback failed.
C1_AllOrNothing ==
    \A r \in Reqs :
        /\ RowsOf(r) \in {<<>>, Rows(r)}
        /\ RowsOf(r) # <<>> => committed[r]
        /\ Finished(r, "store") =>
            \/ /\ calls[r]["store"].out = "return"
               /\ committed[r]
               /\ RowsOf(r) = Rows(r)
            \/ /\ calls[r]["store"].out = "raise"
               /\ ~committed[r]
               /\ RowsOf(r) = <<>>
               /\ \/ exc[r] = "Database error"
                     /\ response[r] = ErrorResponse("Database error")
                  \/ exc[r] = "RollbackError"
                     /\ response[r] = ErrorResponse("Internal Server Error")

\* A call with two rows whose second INSERT or whose COMMIT failed has been
\* rolled back and has raised, while another request's rows are in the table.
C1_Witness ==
    \E r \in Reqs :
        /\ calls[r]["store"].out = "raise"
        /\ Len(pending[r]) = 2
        /\ exc[r] = "Database error"
        /\ \E o \in Reqs \ {r} : Len(RowsOf(o)) = 2

\* ---- C3 --------------------------------------------------------------
\* C3: within one request each step runs at most once and in the order
\* translator, fetcher, store, response: the fetcher is called only with the
\* query the translator returned, the store only after the fetcher returned
\* a list, a success response is produced only after the store committed
\* and returned, and after a step has failed no later step runs.
C3_LinearOrder ==
    \A r \in Reqs :
        /\ \A s \in Steps : calls[r][s].n <= 1
        /\ calls[r]["fetcher"].n = 1 =>
              /\ calls[r]["translator"].out = "return"
              /\ search_query[r] # NoQuery
              /\ payload[r] = search_query[r]
        /\ calls[r]["store"].n = 1 =>
              /\ calls[r]["fetcher"].out = "return"
              /\ leads[r] # NoLeads
        /\ calls[r]["response"].n = 1 =>
              /\ calls[r]["store"].out = "return"
              /\ committed[r]
        /\ response[r].code = 200 => calls[r]["response"].n = 1
        /\ calls[r]["translator"].out = "raise" =>
              /\ calls[r]["fetcher"].n = 0
              /\ calls[r]["store"].n = 0
              /\ calls[r]["response"].n = 0
        /\ calls[r]["fetcher"].out = "raise" =>
              /\ calls[r]["store"].n = 0
              /\ calls[r]["response"].n = 0
        /\ calls[r]["store"].out = "raise" => calls[r]["response"].n = 0
        /\ (\E s \in Steps : calls[r][s].out = "raise") =>
              pc[r] = "done" /\ response[r].code = 500

\* One request has run all four steps once, another stopped at a failed
\* fetcher.
C3_Witness ==
    \E r \in Reqs :
        /\ pc[r] = "done"
        /\ \A s \in Steps : calls[r][s] = [n |-> 1, out |-> "return"]
        /\ Len(leads[r]) = 2
        /\ \E o \in Reqs \ {r} : calls[o]["fetcher"].out = "raise"

\* ---- C4 --------------------------------------------------------------
\* C4: the session store_leads opened is closed once store_leads has
\* returned or raised, whichever way it ended, and no request that has
\* answered holds an open session.
C4_SessionClosed ==
    \A r \in Reqs :
        /\ Finished(r, "store") => session[r] = "closed"
        /\ pc[r] \in {"respond", "done"} => session[r] # "open"
        /\ session[r] = "open" => pc[r] \in {"add", "commit", "rollback", "close"}

\* A request whose rollback itself failed has answered, its session closed.
C4_Witness ==
    \E r \in Reqs :
        /\ pc[r] = "done"
        /\ exc[r] = "RollbackError"
        /\ session[r] = "closed"

\* ---- C8 --------------------------------------------------------------
\* C8: in every success response google_query is the string the translator
\* returned and the fetcher was called with, and leads_found is the number
\* of leads the fetcher returned and the number of rows this request
\* committed, whatever other requests do meanwhile; a request in which a
\* step failed ends with a non-2xx response.
C8_ResponseMatches ==
    \A r \in Reqs :
        /\ response[r].code = 200 =>
              /\ response[r].google_query = search_query[r]
              /\ response[r].google_query = payload[r]
              /\ calls[r]["translator"].out = "return"
              /\ response[r].leads_found = Len(leads[r])
              /\ response[r].leads_found = Len(RowsOf(r))
              /\ committed[r]
        /\ (pc[r] = "done" /\ \E s \in Steps : calls[r][s].out = "raise") =>
              response[r].code \notin 200..299
        /\ pc[r] = "done" => response[r].code \in {200, 500}

\* Two requests have both answered with success, each after committing
\* rows, and their rows lie in the table in the opposite order of their ids.
C8_Witness ==
    \E r \in Reqs, o \in Reqs :
        /\ r < o
        /\ response[r].code = 200 /\ response[o].code = 200
        /\ response[r].leads_found = 1 /\ response[o].leads_found = 2
        /\ table # <<>> /\ table[1].req = o

\* ---- C10 -------------------------------------------------------------
\* A step keeps every row of the table in place and unchanged, and if it
\* changes the table it is the commit of one request, which appends exactly
\* the rows of that request's transaction.
C10_Step ==
    /\ IsPrefix(table, table')
    /\ table' # table =>
          \E r \in Reqs :
              /\ pc[r] = "commit" /\ pc'[r] = "close"
              /\ ~committed[r] /\ committed'[r]
              /\ table' = table \o Landed(r, Rows(r))
\* A request that ended in failure has no row in the table.
C10_FailedLeavesNothing ==
    \A r \in Reqs : response[r].code = 500 => RowsOf(r) = <<>>

\* C10: the table only grows.  Under any interleaving of requests every
\* step leaves the rows committed earlier in place and unchanged, the only
\* change a request makes to the table is appending the rows of its own
\* committed transaction, and a request that ends in failure adds nothing.
C10_TableOnlyGrows == [](C10_FailedLeavesNothing) /\ [][C10_Step]_vars

\* A request has failed in the store after another one committed two rows,
\* and the table holds exactly those two rows.
C10_Witness ==
    \E r \in Reqs, o \in Reqs :
        /\ r # o
        /\ calls[r]["store"].out = "raise" /\ pc[r] = "done"
        /\ Len(pending[r]) > 0
        /\ committed[o]
        /\ table = Landed(o, Rows(o))
        /\ Len(table) = 2


\* ---- claims about the fetcher, checked under SpecOne -------------------
\* The scraping service answered request r with a success status.
OkReply(r) == calls[r]["fetcher"].n = 1 /\ apify[r].status \in {200, 201}

\* b is an array whose first result set carries an organicResults list.
HasOrganicList(b) ==
    /\ b.t = "list" /\ b.v # <<>>
    /\ IsDict(b.v[1])
    /\ "organicResults" \in DOMAIN b.v[1].v
    /\ b.v[1].v["organicResults"].t = "list"
OrganicOf(b) == b.v[1].v["organicResults"].v

\* x is a result object of the documented shape: an object whose url, when
\* present, is a string and whose personalInfo, when present, is an object.
IsResultObject(x) ==
    /\ IsDict(x)
    /\ "url" \in DOMAIN x.v => x.v["url"].t = "str"
    /\ "personalInfo" \in DOMAIN x.v => IsDict(x.v["personalInfo"])

HoldsResults(b) ==
    HasOrganicList(b) /\ \A i \in 1..Len(OrganicOf(b)) : IsResultObject(OrganicOf(b)[i])

\* The result's URL contains the LinkedIn profile path segment.
HasProfileUrl(x) ==
    "url" \in DOMAIN x.v /\ x.v["url"].t = "str" /\ IsSubstring(Needle, x.v["url"].v)
Matching(b) == SelectSeq(OrganicOf(b), HasProfileUrl)
Field(x, k) == IF k \in DOMAIN x.v THEN x.v[k] ELSE Null
InfoField(x, k) ==
    IF "personalInfo" \in DOMAIN x.v THEN Field(x.v["personalInfo"], k) ELSE Null

\* ---- C2 --------------------------------------------------------------
\* C2: when the scraping service answers with success and the first result
\* set holds N organic result objects of which M have a URL containing
\* linkedin.com/in, fetch_leads returns exactly M leads, the k-th lead made
\* from the k-th matching result; the other results contribute nothing.
C2_OnePerMatch ==
    \A r \in Reqs :
        (OkReply(r) /\ HoldsResults(apify[r].body)) =>
            /\ calls[r]["fetcher"].out = "return"
            /\ Len(leads[r]) = Len(Matching(apify[r].body))
            /\ \A k \in 1..Len(leads[r]) :
                LET x == Matching(apify[r].body)[k] IN
                /\ leads[r][k].v["linkedin_url"] = x.v["url"]
                /\ leads[r][k].v["name"] = Field(x, "title")
                /\ leads[r][k].v["title"] = InfoField(x, "jobTitle")

\* Two organic results, the first one a company page and the second one a
\* profile: one lead, made from the second result.
C2_Witness ==
    \E r \in Reqs :
        /\ OkReply(r) /\ HoldsResults(apify[r].body)
        /\ Len(OrganicOf(apify[r].body)) = 2
        /\ Field(OrganicOf(apify[r].body)[1], "url") = CompanyUrl
        /\ Field(OrganicOf(apify[r].body)[2], "url") = ProfileUrl
        /\ Len(leads[r]) = 1
        /\ pc[r] = "done"

\* ---- C5 --------------------------------------------------------------
\* C5: when the scraping service answers with a status other than 200 and
\* 201, fetch_leads raises and returns no list, the endpoint answers with a
\* server error, the store is never called and the request inserts no row.
C5_BadStatusFails ==
    \A r \in Reqs :
        (calls[r]["fetcher"].n = 1 /\ apify[r] # ConnError
            /\ apify[r].status \notin {200, 201}) =>
            /\ calls[r]["fetcher"].out = "raise"
            /\ leads[r] = NoLeads
            /\ pc[r] = "done"
            /\ response[r] = ErrorResponse("Apify request failed")
            /\ calls[r]["store"].n = 0
            /\ session[r] = "none"
            /\ pending[r] = <<>> /\ tx[r] = <<>>
            /\ RowsOf(r) = <<>>

\* The service answered 204 with a body that holds a profile result.
C5_Witness ==
    \E r \in Reqs :
        /\ apify[r].status = 204
        /\ HoldsResults(apify[r].body) /\ Len(Matching(apify[r].body)) = 1
        /\ pc[r] = "done"

\* ---- C6 --------------------------------------------------------------
\* b is an array of result-set objects whose organicResults, when present,
\* is a list of result objects.
IsResultSet(x) ==
    /\ IsDict(x)
    /\ "organicResults" \in DOMAIN x.v =>
          /\ x.v["organicResults"].t = "list"
          /\ \A i \in 1..Len(x.v["organicResults"].v) :
                IsResultObject(x.v["organicResults"].v[i])
WellFormed(b) == b.t = "list" /\ \A i \in 1..Len(b.v) : IsResultSet(b.v[i])

\* C6 as stated: every body with a success status that is not an array of
\* result sets of the expected shape makes fetch_leads raise.
C6_MalformedRaises ==
    \A r \in Reqs :
        (OkReply(r) /\ ~WellFormed(apify[r].body)) => calls[r]["fetcher"].out = "raise"

\* ---- C7 --------------------------------------------------------------
\* b is a response with zero organic results: an empty array, or a first
\* result set without organicResults or with an empty organicResults list.
ZeroOrganic(b) ==
    /\ b.t = "list"
    /\ b.v # <<>> =>
          /\ IsDict(b.v[1])
          /\ "organicResults" \in DOMAIN b.v[1].v => b.v[1].v["organicResults"] = Arr(<<>>)

\* C7: on a success status with zero organic results fetch_leads returns
\* the empty list without raising, no later step of the request fails, and
\* the request ends with a success response with leads_found 0 and no row
\* inserted.
C7_EmptyIsSuccess ==
    \A r \in Reqs :
        (OkReply(r) /\ ZeroOrganic(apify[r].body)) =>
            /\ calls[r]["fetcher"].out = "return"
            /\ leads[r] = <<>>
            /\ pc[r] \in {"store", "commit", "close", "respond", "done"}
            /\ exc[r] = "none"
            /\ pending[r] = <<>> /\ tx[r] = <<>>
            /\ RowsOf(r) = <<>>
            /\ pc[r] = "done" =>
                  /\ response[r].code = 200
                  /\ response[r].leads_found = 0
                  /\ response[r].google_query = search_query[r]

\* A request answered with success after a reply whose only result set has
\* no organicResults key.
C7_Witness ==
    \E r \in Reqs :
        /\ OkReply(r)
        /\ apify[r].body = Arr(<<EmptyDict>>)
        /\ pc[r] = "done"
        /\ response[r].leads_found = 0

\* ---- C9 --------------------------------------------------------------
\* C9 as stated: the k-th row a request committed carries the fields of the
\* k-th kept result: name, title, company and location are the result's
\* title, personalInfo.jobTitle, personalInfo.companyName and
\* personalInfo.location, null where the result lacks them.
C9_RowCarriesFields ==
    \A r \in Reqs :
        (OkReply(r) /\ HoldsResults(apify[r].body) /\ committed[r]) =>
            \A k \in 1..Len(RowsOf(r)) :
                LET x == Matching(apify[r].body)[k]
                    row == RowsOf(r)[k] IN
                /\ row.name = Field(x, "title")
                /\ row.title = InfoField(x, "jobTitle")
                /\ row.company = InfoField(x, "companyName")
                /\ row.location = InfoField(x, "location")


====
